---- MODULE Spec2Model ----
\* A model of the LRU + TTL cache of src/lib.rs (struct Cache<K, D>).
\*
\* The store is the lru::LruCache behind the RwLock; every section of code that
\* runs under one acquisition of the lock is one atomic step of a thread, and
\* the code between two acquisitions is where other threads interleave.
\* Time is a discrete clock (one tick = 100 ms of the test fixture).
EXTENDS Integers, Sequences, FiniteSets, TLC

\* ---------------------------------------------------------------- bounds
NumThreads == 2
NumKeys == 3
MaxTime == 2
\* The size given to Cache::new (3 in the fixture), kept below NumKeys so that
\* the store overflows.
Capacity == 2
\* Calls started in a run: by all threads together, and by thread 1 in the runs
\* where it is the only caller.
MaxCalls == 3
MaxSeqCalls == 4
\* The largest size given to Cache::new where the size is left open.
MaxSize == 1

\* ------------------------------------------------------ program constants
\* Cache::new(3, miss_handler, 200 ms, 100 ms) in the fixture: the TTLs in
\* ticks of 100 ms.
PositiveTtl == 2
NegativeTtl == 1
\* Default::default() of the data type (i32 in the fixture).
DefaultData == 0

Threads == 1..NumThreads
Keys == 1..NumKeys
\* Values given to insert; disjoint from what the miss handler computes.
Values == {8, 9}
\* Sizes given to Cache::new where the size is left open.
Sizes == 0..MaxSize

VARIABLES
    store,   \* the LruCache: a sequence of entries, least recently used first
    now,     \* Instant::now()
    th,      \* per thread: where it is in its current call, and its locals
    calls,   \* number of calls started so far
    cache    \* what Cache::new was given and whether it produced a Cache

vars == <<store, now, th, calls, cache>>

\* ------------------------------------------------------------ Cache::new
\* A constructor that accepts any size.
CacheNewAnySize(size) == [size |-> size, built |-> TRUE]

\* Lines 66-74: NonZeroUsize::new(size).unwrap() panics on size 0 and no Cache
\* is produced; otherwise the LruCache has capacity size.
CacheNew(size) == [size |-> size, built |-> size # 0]

\* ------------------------------------------------------------ Entry<D>
Entry(k, d, c, e, s) == [key |-> k, data |-> d, code |-> c, exp |-> e, status |-> s]

\* An Entry::new that drops the data it is given.
EntryNewNoData(k, d, e, c) == [key |-> k, data |-> 0, code |-> c, exp |-> e, status |-> "AVAILABLE"]

\* Entry::new: the status is AVAILABLE whatever the caller passes.
EntryNew(k, d, e, c) == Entry(k, d, c, e, "AVAILABLE")

\* Entry::default, with the status set to CALCULATING right after (line 144).
EntryDefault(k) == Entry(k, DefaultData, 0, now, "CALCULATING")

\* An is_valid with the comparison inverted.
IsValidInverted(e, t) == e.exp < t

\* An is_valid that never lets an entry expire.
IsValidForever(e, t) == TRUE

\* Entry::is_valid at time t.
IsValidAt(e, t) == e.exp > t

IsValid(e) == IsValidAt(e, now)

\* ------------------------------------------------------------ LruCache
KeysOf(s) == {s[i].key : i \in 1..Len(s)}

Contains(s, k) == k \in KeysOf(s)

IndexOf(s, k) == CHOOSE i \in 1..Len(s) : s[i].key = k

\* LruCache::peek: the entry of k, recency order untouched.
Peek(s, k) == s[IndexOf(s, k)]

Without(s, k) == SelectSeq(s, LAMBDA e : e.key # k)

\* A pop that removes nothing.
PopNothing(s, k) == s

\* A pop that, instead of removing the entry, turns it back to CALCULATING
\* where it is.
PopMarkCalculating(s, k) ==
    [i \in 1..Len(s) |-> IF s[i].key = k THEN [s[i] EXCEPT !.status = "CALCULATING"] ELSE s[i]]

\* A get that does not touch the recency order.
PromoteNothing(s, k) == s

\* LruCache::pop: removes k if present.
Pop(s, k) == Without(s, k)

\* LruCache::get: moves k to the most recently used end if present.
Promote(s, k) == IF Contains(s, k) THEN Append(Without(s, k), Peek(s, k)) ELSE s

\* A put that never evicts.
PutNoEvict(s, e) ==
    IF Contains(s, e.key) THEN Append(Without(s, e.key), e) ELSE Append(s, e)

\* A put that evicts the most recently used entry instead of the least.
PutEvictMru(s, e) ==
    IF Contains(s, e.key) THEN Append(Without(s, e.key), e)
    ELSE IF Len(s) >= cache.size THEN Append(SubSeq(s, 1, Len(s) - 1), e)
    ELSE Append(s, e)

\* LruCache::put: overwrite and promote, or insert, evicting the least
\* recently used entry when the cache is full.
Put(s, e) ==
    IF Contains(s, e.key) THEN Append(Without(s, e.key), e)
    ELSE IF Len(s) >= cache.size THEN Append(Tail(s), e)
    ELSE Append(s, e)

\* A get_or_insert_mut that overwrites the entry it finds.
GetOrInsertOverwrite(s, e) == Put(s, e)

\* LruCache::get_or_insert_mut: the existing entry promoted, or the new one put.
GetOrInsert(s, e) == IF Contains(s, e.key) THEN Promote(s, e.key) ELSE Put(s, e)

\* LruCache::len
CacheLen(s) == Len(s)

\* --------------------------------------------------------- miss handler
\* The caller's fn(&K, &mut D, &mut u8) -> bool. What it yields for a key is
\* not fixed by the cache (that is what the TTL is for): each invocation
\* succeeds with data 2k, code 1 (the fixture's handler) or with data 2k+1,
\* code 2 (the handler's answer having changed), or fails leaving data and
\* code as it found them.
MissOutcomes(k) ==
    { [ok |-> TRUE, data |-> 2 * k, code |-> 1],
      [ok |-> TRUE, data |-> 2 * k + 1, code |-> 2],
      [ok |-> FALSE, data |-> DefaultData, code |-> 0] }

\* -------------------------------------------------------------- threads
NoRet == [tag |-> "na", data |-> DefaultData, code |-> 0]
RetUnit == [tag |-> "unit", data |-> DefaultData, code |-> 0]
RetNone == [tag |-> "none", data |-> DefaultData, code |-> 0]
RetSome(d) == [tag |-> "some", data |-> d, code |-> 0]
RetPair(d, c) == [tag |-> "pair", data |-> d, code |-> c]

NoEntry == Entry(0, DefaultData, 0, 0, "NONE")

\* What a call remembers of the call the same thread made just before it, when
\* that was a call on the same key (prev), and the entry its is_in_cache found
\* for the key (seen).
NoPrev == [op |-> "none", key |-> 0, arg |-> DefaultData, entry |-> NoEntry, ret |-> NoRet]

\* What the caller of retrieve_or_compute has read through the &D it was
\* given: nothing yet, or the data d.
NoObs == [read |-> FALSE, data |-> DefaultData]
Obs(d) == [read |-> TRUE, data |-> d]

\* ref is where the &D returned to the thread points: nowhere ("none"), into
\* the node that the LruCache holds for the key ("node"), or into a node that
\* the LruCache has given up ("freed").
Idle == [pc |-> "idle", op |-> "none", key |-> 0, arg |-> DefaultData, entry |-> NoEntry,
         ret |-> NoRet, prev |-> NoPrev, seen |-> NoEntry, ref |-> "none", obs |-> NoObs]

\* The thread has returned from its call with r.
Returned(t, r) == [th[t] EXCEPT !.pc = "done", !.ret = r]

\* Lines 125-139 and 156: retrieve_or_compute returns the code by value and
\* the data as a reference into the node of the key, made by an unsafe cast
\* that outlives the lock guard.
ReturnedRef(t, r) == [th[t] EXCEPT !.pc = "done", !.ret = r, !.ref = "node"]

\* The references held by callers once the store has become s: a reference
\* into the node of a key that s no longer holds dangles.
Dangle(f, s) ==
    [u \in Threads |->
        IF f[u].ref = "node" /\ ~Contains(s, f[u].key) THEN [f[u] EXCEPT !.ref = "freed"] ELSE f[u]]

At(t, pc, op) == th[t].pc = pc /\ th[t].op = op

\* The thread has returned from a call of op and has not called since.
Done(t, op) == th[t].pc = "done" /\ th[t].op = op

Goto(t, pc) == th' = [th EXCEPT ![t].pc = pc]

Init ==
    /\ store = <<>>
    /\ now = 0
    /\ th = [t \in Threads |-> Idle]
    /\ calls = 0
    /\ cache = CacheNew(Capacity)

\* The state after Cache::new(size, ...) for any size.
InitNew ==
    /\ store = <<>>
    /\ now = 0
    /\ th = [t \in Threads |-> Idle]
    /\ calls = 0
    /\ \E size \in Sizes : cache = CacheNew(size)

\* Time passes.
Tick ==
    /\ now < MaxTime
    /\ now' = now + 1
    /\ UNCHANGED <<store, th, calls, cache>>

\* The calls of a run are bounded: MaxCalls by all threads together, or
\* MaxSeqCalls by thread 1 when no other thread has called.
MayCall(t) ==
    \/ calls < MaxCalls
    \/ calls < MaxSeqCalls /\ t = 1 /\ \A u \in Threads \ {1} : th[u].pc = "idle"

PrevOf(t, k) ==
    IF th[t].pc = "done" /\ th[t].key = k
    THEN [op |-> th[t].op, key |-> th[t].key, arg |-> th[t].arg, entry |-> th[t].entry,
          ret |-> th[t].ret]
    ELSE NoPrev

\* A thread starts a call on the Cache that was built (its previous call, if
\* any, has returned): op on key k with data argument a, continuing at pc with
\* local entry e.
Start(t, op, k, a, pc, e, seen) ==
    /\ cache.built
    /\ th[t].pc \in {"idle", "done"}
    /\ MayCall(t)
    /\ calls' = calls + 1
    /\ th' = [th EXCEPT ![t] = [pc |-> pc, op |-> op, key |-> k, arg |-> a, entry |-> e,
                                ret |-> NoRet, prev |-> PrevOf(t, k), seen |-> seen,
                                ref |-> "none", obs |-> NoObs]]

\* ------------------------------------------------------- Cache::insert
\* Lines 78-79: the expiration is taken before the lock is.
CallInsert(t, k, v) ==
    /\ Start(t, "insert", k, v, "put", EntryNew(k, v, now + PositiveTtl, 0), NoEntry)
    /\ UNCHANGED <<store, now, cache>>

\* Line 80: put under the write lock.
InsertPut(t) ==
    /\ At(t, "put", "insert")
    /\ store' = Put(store, th[t].entry)
    /\ th' = Dangle([th EXCEPT ![t] = Returned(t, RetUnit)], store')
    /\ UNCHANGED <<now, calls, cache>>

\* -------------------------------------------------- Cache::is_in_cache
\* Lines 92-99: under the write lock, LruCache::get (which promotes) and
\* Entry::is_valid. The answer of this first half of is_in_cache.
Found(s, k) == Contains(s, k) /\ IsValid(Peek(s, k))

\* A call of get or retrieve_or_compute begins with is_in_cache: yes leads to
\* pc "yes", no to pc "pop".
Lookup(t, op, k) ==
    /\ Start(t, op, k, DefaultData, IF Found(store, k) THEN "yes" ELSE "pop", NoEntry,
             IF Contains(store, k) THEN Peek(store, k) ELSE NoEntry)
    /\ store' = Promote(store, k)
    /\ UNCHANGED <<now, cache>>

\* Line 106: under the write lock again, pop. In get the answer is None; in
\* retrieve_or_compute the miss handler is invoked next (lines 143-145).
Expire(t) ==
    /\ th[t].pc = "pop"
    /\ store' = Pop(store, th[t].key)
    /\ IF th[t].op = "get"
       THEN th' = Dangle([th EXCEPT ![t] = Returned(t, RetNone)], store')
       ELSE th' = Dangle([th EXCEPT ![t].pc = "calc", ![t].entry = EntryDefault(th[t].key)],
                         store')
    /\ UNCHANGED <<now, calls, cache>>

\* ---------------------------------------------------------- Cache::get
CallGet(t, k) == Lookup(t, "get", k)

\* Line 85: under the write lock, LruCache::get and a copy of the data.
GetRead(t) ==
    /\ At(t, "yes", "get")
    /\ store' = Promote(store, th[t].key)
    /\ th' = [th EXCEPT ![t] = Returned(t, IF Contains(store, th[t].key)
                                            THEN RetSome(Peek(store, th[t].key).data)
                                            ELSE RetNone)]
    /\ UNCHANGED <<now, calls, cache>>

\* ------------------------------------------ Cache::retrieve_or_compute
CallRetrieve(t, k) == Lookup(t, "retrieve", k)

\* Lines 121-139: under the read lock, peek(key).unwrap() and the match on the
\* status. unwrap panics when the entry is gone; a CALCULATING entry is waited
\* for with the read lock held (pc "wait").
Hit(t) ==
    /\ At(t, "yes", "retrieve")
    /\ IF ~Contains(store, th[t].key)
       THEN Goto(t, "panicked")
       ELSE IF Peek(store, th[t].key).status = "CALCULATING"
       THEN Goto(t, "wait")
       ELSE th' = [th EXCEPT ![t] = ReturnedRef(t, RetPair(Peek(store, th[t].key).data,
                                                           Peek(store, th[t].key).code))]
    /\ UNCHANGED <<store, now, calls, cache>>

\* A settling with the two TTLs swapped.
SettleSwapped(e, o) ==
    IF o.ok
    THEN [e EXCEPT !.data = o.data, !.code = o.code, !.exp = now + NegativeTtl, !.status = "READY"]
    ELSE [e EXCEPT !.exp = now + PositiveTtl, !.status = "FAILED"]

\* Lines 145-151: the miss handler returns and the entry becomes READY with the
\* positive TTL or FAILED with the negative one. No lock is held.
Settle(e, o) ==
    IF o.ok
    THEN Entry(e.key, o.data, o.code, now + PositiveTtl, "READY")
    ELSE Entry(e.key, e.data, e.code, now + NegativeTtl, "FAILED")

ComputeWith(t, o) ==
    /\ At(t, "calc", "retrieve")
    /\ th' = [th EXCEPT ![t].pc = "ins", ![t].entry = Settle(th[t].entry, o)]
    /\ UNCHANGED <<store, now, calls, cache>>

Compute(t) == \E o \in MissOutcomes(th[t].key) : ComputeWith(t, o)

\* Lines 154-156: under the write lock, get_or_insert_mut; the result is read
\* from the entry the store then holds.
Publish(t) ==
    /\ At(t, "ins", "retrieve")
    /\ store' = GetOrInsert(store, th[t].entry)
    /\ th' = Dangle([th EXCEPT ![t] = ReturnedRef(t, RetPair(Peek(store', th[t].key).data,
                                                              Peek(store', th[t].key).code))],
                     store')
    /\ UNCHANGED <<now, calls, cache>>

\* What a read through the reference of thread t can yield. Into the node of
\* its key: the data the node holds now. Into a node given up: the read is
\* undefined; the memory may be as it was left or hold an entry stored since.
DerefOutcomes(t) ==
    IF th[t].ref = "node"
    THEN {Peek(store, th[t].key).data}
    ELSE {th[t].ret.data} \cup {store[i].data : i \in 1..Len(store)}

\* The caller reads the data through the reference it was given (*data at
\* lines 310, 328, 391), no lock held.
Deref(t) ==
    /\ Done(t, "retrieve")
    /\ ~th[t].obs.read
    /\ \E d \in DerefOutcomes(t) : th' = [th EXCEPT ![t].obs = Obs(d)]
    /\ UNCHANGED <<store, now, calls, cache>>

Next ==
    \/ Tick
    \/ \E t \in Threads, k \in Keys, v \in Values : CallInsert(t, k, v)
    \/ \E t \in Threads, k \in Keys : CallGet(t, k)
    \/ \E t \in Threads, k \in Keys : CallRetrieve(t, k)
    \/ \E t \in Threads : InsertPut(t)
    \/ \E t \in Threads : Expire(t)
    \/ \E t \in Threads : GetRead(t)
    \/ \E t \in Threads : Hit(t)
    \/ \E t \in Threads : Compute(t)
    \/ \E t \in Threads : Publish(t)
    \/ \E t \in Threads : Deref(t)

Spec == Init /\ [][Next]_vars

\* The same program, constructed with any size.
SpecNew == InitNew /\ [][Next]_vars

\* The next step of thread t inside its call.
Proceed(t) ==
    InsertPut(t) \/ Expire(t) \/ GetRead(t) \/ Hit(t) \/ Compute(t) \/ Publish(t)

\* Fair scheduling: a thread whose next step can be taken (the lock is free
\* between the steps of the others, the miss handler terminates) takes it.
SpecFair == Spec /\ \A t \in Threads : WF_vars(Proceed(t))

\* ------------------------------------------------------------- claims
EntriesOf(s) == {s[i] : i \in 1..Len(s)}

\* C1: at no time are two invocations of the miss computation for the same key
\* in flight.
C1_OneComputationPerKey ==
    \A t1, t2 \in Threads :
        (t1 # t2 /\ th[t1].pc = "calc" /\ th[t2].pc = "calc") => th[t1].key # th[t2].key

\* C2: when every thread that has called made one call, retrieve_or_compute of
\* the same key on the initially empty store, and no time has passed, all the
\* calls that have returned returned the same (value, aux_code).
C2_SameOutcome ==
    LET active == {t \in Threads : th[t].pc # "idle"} IN
    (/\ now = 0
     /\ calls = Cardinality(active)
     /\ \A t \in active : th[t].op = "retrieve"
     /\ \A t1, t2 \in active : th[t1].key = th[t2].key)
    => \A t1, t2 \in active :
         (th[t1].pc = "done" /\ th[t2].pc = "done") => th[t1].ret = th[t2].ret

\* C3: the store never holds more entries than the capacity.
C3_CapacityBound == CacheLen(store) <= Capacity

\* Two inserts have returned, a third key is in the full store and the key of
\* one of the inserts is gone: an insert into the full store evicted it.
C3_Witness ==
    /\ calls = 3
    /\ Len(store) = Capacity
    /\ \E t1, t2 \in Threads :
         /\ t1 # t2
         /\ Done(t1, "insert") /\ Done(t2, "insert")
         /\ th[t1].key # th[t2].key
         /\ ~Contains(store, th[t1].key)

\* C4: the put of insert, for a key not in the full store, removes the least
\* recently used entry and nothing else; for a key in the store it removes
\* nothing and the length stays; below capacity it only adds the key.
C4_PutEffect(t) ==
    LET k == th[t].key IN
    IF Contains(store, k)
    THEN /\ KeysOf(store') = KeysOf(store)
         /\ Len(store') = Len(store)
         /\ EntriesOf(store') \ {th[t].entry} = EntriesOf(store) \ {Peek(store, k)}
    ELSE IF Len(store) = Capacity
    THEN /\ KeysOf(store') = (KeysOf(store) \ {store[1].key}) \cup {k}
         /\ Len(store') = Capacity
         /\ EntriesOf(store') = (EntriesOf(store) \ {store[1]}) \cup {th[t].entry}
    ELSE /\ EntriesOf(store') = EntriesOf(store) \cup {th[t].entry}
         /\ Len(store') = Len(store) + 1

C4_LruEviction == [][\A t \in Threads : InsertPut(t) => C4_PutEffect(t)]_vars

\* Keys 1, 2, 3 were inserted in this order into the store of capacity 2: key 1,
\* the least recently used, is gone and 2 and 3 are kept.
C4_Witness ==
    /\ calls = 3
    /\ Len(store) = 2 /\ store[1].key = 2 /\ store[2].key = 3
    /\ \A i \in 1..2 : store[i].status = "AVAILABLE" /\ store[i].exp = PositiveTtl
    /\ Done(1, "insert") /\ th[1].key = 3
    /\ Done(2, "insert") /\ th[2].key = 1

\* The keys of s in recency order.
KeySeq(s) == [i \in 1..Len(s) |-> s[i].key]

OtherKeys(s, k) == SelectSeq(KeySeq(s), LAMBDA x : x # k)

\* k is the most recently used key of s2 and the other keys of s follow in
\* the order they had in s.
MovedLast(s, s2, k) == KeySeq(s2) = Append(OtherKeys(s, k), k)

\* The store holds an entry for k that has not expired at time t.
HoldsValid(s, k, t) == \E i \in 1..Len(s) : s[i].key = k /\ t < s[i].exp

HoldsExpired(s, k, t) == \E i \in 1..Len(s) : s[i].key = k /\ t >= s[i].exp

\* No other thread has called the cache.
Alone(t) == \A u \in Threads \ {t} : th[u].pc = "idle"

\* C5: the step of get that returns a value, the lookup of retrieve_or_compute
\* that finds a valid entry, and the put of insert each leave the key the most
\* recently used one, the other keys keeping their relative order (less the
\* evicted one), so that it is the last of them to be evicted.
C5_Step(t) ==
    /\ (GetRead(t) /\ th'[t].ret.tag = "some") => MovedLast(store, store', th[t].key)
    /\ \A k \in Keys :
         (CallRetrieve(t, k) /\ HoldsValid(store, k, now)) => MovedLast(store, store', k)
    /\ InsertPut(t) =>
         LET k == th[t].key IN
         /\ Len(store') > 0 /\ store'[Len(store')].key = k
         /\ \/ OtherKeys(store', k) = OtherKeys(store, k)
            \/ /\ Len(store) = Capacity /\ ~Contains(store, k)
               /\ OtherKeys(store', k) = Tail(OtherKeys(store, k))

C5_RecencyPromotion == [][\A t \in Threads : C5_Step(t)]_vars

\* The only caller's get has returned a value for a key that was inserted
\* before the other key of the store (it expires earlier) and is now the most
\* recently used of the two: the next insert into the full store evicts the
\* other one.
C5_Witness ==
    /\ Alone(1) /\ Done(1, "get") /\ th[1].ret.tag = "some"
    /\ Len(store) = 2
    /\ store[2].key = th[1].key
    /\ store[1].status = "AVAILABLE" /\ store[2].status = "AVAILABLE"
    /\ store[1].exp > store[2].exp

\* C6: get goes on to read the value exactly when the store holds an entry for
\* the key that has not expired, and then returns Some of its data (the entry
\* still being there, as it is when no other thread calls); otherwise it
\* returns None and no entry for the key is left: a found but expired entry is
\* removed, an absent key leaves the store as it is.
C6_Step(t) ==
    /\ \A k \in Keys :
         CallGet(t, k) => (th'[t].pc = "yes" <=> HoldsValid(store, k, now))
    /\ GetRead(t) =>
         /\ Alone(t) => Contains(store, th[t].key)
         /\ Contains(store, th[t].key) =>
              /\ th'[t].ret = RetSome(Peek(store, th[t].key).data)
              /\ EntriesOf(store') = EntriesOf(store)
         /\ ~Contains(store, th[t].key) => th'[t].ret = RetNone
    /\ (Expire(t) /\ th[t].op = "get") =>
         /\ th'[t].ret = RetNone
         /\ ~Contains(store', th[t].key)
         /\ Contains(store, th[t].key) =>
              /\ Len(store') = Len(store) - 1
              /\ EntriesOf(store') = EntriesOf(store) \ {Peek(store, th[t].key)}
         /\ ~Contains(store, th[t].key) => store' = store

C6_LazyExpiryOnGet == [][\A t \in Threads : C6_Step(t)]_vars

\* The only caller's get found an entry that had expired, returned None, and
\* the entry is gone.
C6_Witness ==
    /\ Alone(1) /\ Done(1, "get") /\ th[1].ret = RetNone
    /\ th[1].seen # NoEntry /\ th[1].seen.exp <= now
    /\ ~Contains(store, th[1].key)

\* C7: a get that the only caller makes right after its insert of the same
\* key, no time having passed since the insert began, returns Some of the
\* inserted value.
C7_RoundTrip ==
    \A t \in Threads :
        (/\ Done(t, "get") /\ Alone(t)
         /\ th[t].prev.op = "insert" /\ th[t].prev.key = th[t].key
         /\ th[t].prev.entry.exp = now + PositiveTtl)
        => th[t].ret = RetSome(th[t].prev.arg)

C7_Witness ==
    /\ Alone(1) /\ Done(1, "get")
    /\ th[1].prev.op = "insert" /\ th[1].prev.key = th[1].key
    /\ th[1].prev.entry.exp = now + PositiveTtl
    /\ th[1].prev.arg = 9 /\ th[1].ret = RetSome(9)

\* C8: a retrieve_or_compute that the only caller makes after its
\* retrieve_or_compute of the same key, while the entry it finds has not
\* expired, invokes no computation, returns what the previous call returned,
\* and leaves the entry as it found it and as the previous call stored it.
C8_IdempotentHit ==
    \A t \in Threads :
        (/\ Done(t, "retrieve") /\ Alone(t)
         /\ th[t].prev.op = "retrieve" /\ th[t].prev.key = th[t].key
         /\ th[t].seen # NoEntry /\ now < th[t].seen.exp)
        => /\ th[t].entry = NoEntry
           /\ th[t].ret = th[t].prev.ret
           /\ Contains(store, th[t].key)
           /\ Peek(store, th[t].key) = th[t].seen
           /\ th[t].prev.entry # NoEntry => th[t].seen = th[t].prev.entry

\* The third of three such calls has returned: the first computed, the second
\* and the third did not.
C8_Witness ==
    /\ Alone(1) /\ Done(1, "retrieve") /\ calls = 3
    /\ th[1].prev.op = "retrieve" /\ th[1].prev.key = th[1].key
    /\ th[1].prev.entry = NoEntry /\ th[1].entry = NoEntry
    /\ th[1].seen # NoEntry /\ now < th[1].seen.exp
    /\ th[1].ret = RetPair(th[1].seen.data, th[1].seen.code)

\* C9: when the miss handler returns, a failure makes the entry FAILED with the
\* default data, code 0 and the negative TTL from that moment, a success makes
\* it READY with the handler's data and code and the positive TTL; the entry
\* is stored as it is when the key is absent (as it is when no other thread
\* calls), and its data and code are what the call returns; a later
\* retrieve_or_compute that finds an entry not yet expired does not go on to
\* invoke the handler.
C9_Step(t) ==
    /\ \A o \in MissOutcomes(th[t].key) :
         ComputeWith(t, o) =>
             th'[t].entry =
                 IF o.ok
                 THEN Entry(th[t].key, o.data, o.code, now + PositiveTtl, "READY")
                 ELSE Entry(th[t].key, DefaultData, 0, now + NegativeTtl, "FAILED")
    /\ (Publish(t) /\ Alone(t)) => ~Contains(store, th[t].key)
    /\ (Publish(t) /\ ~Contains(store, th[t].key)) =>
         /\ Contains(store', th[t].key)
         /\ Peek(store', th[t].key) = th[t].entry
         /\ th'[t].pc = "done"
         /\ th'[t].ret = RetPair(th[t].entry.data, th[t].entry.code)
    /\ \A k \in Keys :
         (CallRetrieve(t, k) /\ HoldsValid(store, k, now)) => th'[t].pc = "yes"
    /\ th[t].pc = "yes" => th'[t].pc \notin {"pop", "calc", "ins"}

C10_Fresh(t) ==
    (/\ Done(t, "retrieve") /\ Alone(t)
     /\ th[t].entry # NoEntry /\ th[t].seen # NoEntry)
    => /\ Contains(store, th[t].key)
       /\ Peek(store, th[t].key) = th[t].entry
       /\ th[t].entry.exp > th[t].seen.exp

C10_Step(t) ==
    /\ \A k \in Keys :
         /\ (CallRetrieve(t, k) /\ HoldsExpired(store, k, now)) => th'[t].pc = "pop"
         /\ (CallRetrieve(t, k) /\ HoldsValid(store, k, now)) =>
               EntriesOf(store') = EntriesOf(store)
    /\ (Expire(t) /\ th[t].op = "retrieve") =>
         (th'[t].pc = "calc" /\ ~Contains(store', th[t].key))
    /\ (Hit(t) /\ th'[t].pc = "done") => store' = store
    /\ C10_Fresh(t)'

C10_RecomputeAfterExpiry == [][\A t \in Threads : C10_Step(t)]_vars

\* The only caller's second retrieve_or_compute of a key found the READY entry
\* of the first expired and has stored a new one.
C10_Witness ==
    /\ Alone(1) /\ Done(1, "retrieve")
    /\ th[1].prev.op = "retrieve" /\ th[1].prev.key = th[1].key
    /\ th[1].seen = th[1].prev.entry /\ th[1].seen.status = "READY"
    /\ th[1].entry # NoEntry /\ th[1].entry.exp > th[1].seen.exp
    /\ Contains(store, th[1].key)
    /\ Peek(store, th[1].key) = th[1].entry

\* C11: a retrieve_or_compute call never aborts: no thread is ever left
\* panicked inside its call.
C11_NeverPanics == \A t \in Threads : th[t].pc # "panicked"

\* C12: the store never holds an entry in the never-computed state (AVAILABLE,
\* the status of Entry::default and Entry::new): what insert writes is READY.
C12_InsertWritesReady == \A i \in 1..Len(store) : store[i].status # "AVAILABLE"

\* C13: Cache::new(0, ...) produces no Cache, and then no call is ever made
\* and nothing is ever stored; Cache::new(size, ...) with size >= 1 produces a
\* Cache that is empty before the first call and never holds more than size
\* entries; what was constructed never changes.
C13_Built ==
    /\ cache.size = 0 =>
         (~cache.built /\ calls = 0 /\ store = <<>> /\ \A t \in Threads : th[t] = Idle)
    /\ cache.size >= 1 =>
         (cache.built /\ (calls = 0 => CacheLen(store) = 0) /\ CacheLen(store) <= cache.size)

C13_Construction == C13_Built /\ [][cache' = cache /\ C13_Built']_vars

\* Construction with size 0 has failed, and time has passed with no call made.
C13_Witness == cache.size = 0 /\ ~cache.built /\ now > 0 /\ calls = 0

\* C14: while a thread runs the miss computation for a key, the store holds a
\* CALCULATING entry for that key.
C14_PlaceholderWhileComputing ==
    \A t \in Threads :
        th[t].pc = "calc" =>
            /\ Contains(store, th[t].key)
            /\ Peek(store, th[t].key).status = "CALCULATING"

\* C15: under fair scheduling every call that has started returns.
C15_EveryCallReturns ==
    \A t \in Threads : (th[t].pc \notin {"idle", "done"}) ~> (th[t].pc = "done")

\* C16: the entry stored for a key stays as it was written (status, data, code
\* and expiration) in every step that keeps the key in the store, except the
\* put of an insert of that key, which overwrites it; no stored entry is ever
\* CALCULATING; a key leaves the store only by the pop of an is_in_cache on it
\* or as the least recently used key of a put into the full store; and when a
\* thread goes on to invoke the miss handler for a key, the store holds no
\* entry for it.
C16_Step ==
    /\ \A i \in 1..Len(store') : store'[i].status # "CALCULATING"
    /\ \A k \in Keys :
         /\ (Contains(store, k) /\ Contains(store', k)) =>
              \/ Peek(store', k) = Peek(store, k)
              \/ \E t \in Threads :
                   InsertPut(t) /\ th[t].key = k /\ Peek(store', k) = th[t].entry
         /\ (Contains(store, k) /\ ~Contains(store', k)) =>
              \/ \E t \in Threads : Expire(t) /\ th[t].key = k
              \/ \E t \in Threads :
                   /\ InsertPut(t) \/ Publish(t)
                   /\ th[t].key # k /\ ~Contains(store, th[t].key)
                   /\ Len(store) = cache.size /\ store[1].key = k
         /\ \A t \in Threads :
              (th[t].pc # "calc" /\ th'[t].pc = "calc" /\ th'[t].key = k) =>
                  ~Contains(store', k)

C17_Step(t) ==
    LET frame(k) == /\ OtherKeys(store', k) = OtherKeys(store, k)
                    /\ EntriesOf(store') \ {Peek(store, k)} = EntriesOf(store) \ {Peek(store, k)}
                    /\ store' \in {store, Without(store, k)}
    IN  /\ \A k \in Keys :
             ((CallGet(t, k) \/ CallRetrieve(t, k)) /\ ~HoldsValid(store, k, now)) =>
                 IF Contains(store, k) THEN frame(k) ELSE store' = store
        /\ Expire(t) =>
             IF Contains(store, th[t].key) THEN frame(th[t].key) ELSE store' = store

C17_RecencyFrame == [][\A t \in Threads : C17_Step(t)]_vars

\* C18: what the caller of retrieve_or_compute holds after the call has
\* returned stays valid and unchanged: its reference does not dangle, and what
\* it reads through it is the data the call returned.
C18_OwnedResult ==
    \A t \in Threads :
        Done(t, "retrieve") =>
            /\ th[t].ref # "freed"
            /\ th[t].obs.read => th[t].obs.data = th[t].ret.data

\* The pairs (value, aux_code) that some invocation of the miss handler on k
\* yields, or that an insert of some value for k yields.
OutcomesFor(k) ==
    {<<(IF o.ok THEN o.data ELSE DefaultData), (IF o.ok THEN o.code ELSE 0)>> : o \in MissOutcomes(k)}
        \cup {<<v, 0>> : v \in Values}

\* C19: the pair that the caller of retrieve_or_compute(k) holds, the value
\* as it reads it and the code, is the outcome of one miss computation on k or
\* (v, 0) for an inserted value v.
C19_ResultProvenance ==
    \A t \in Threads :
        (Done(t, "retrieve") /\ th[t].obs.read) =>
            <<th[t].obs.data, th[t].ret.code>> \in OutcomesFor(th[t].key)

\* C20: the get_or_insert_mut step of retrieve_or_compute, when the store
\* holds an entry for the key, leaves every stored entry as it is and returns
\* the data and code of the stored one, the computed entry being dropped; when
\* the key is absent it stores the computed entry, in place of the least
\* recently used one if the store is full, and returns its data and code.
C20_Step(t) ==
    Publish(t) =>
        LET k == th[t].key
            e == th[t].entry
        IN  /\ th'[t].pc = "done"
            /\ IF Contains(store, k)
               THEN /\ Peek(store', k) = Peek(store, k)
                    /\ EntriesOf(store') = EntriesOf(store)
                    /\ CacheLen(store') = CacheLen(store)
                    /\ th'[t].ret = RetPair(Peek(store, k).data, Peek(store, k).code)
               ELSE /\ Peek(store', k) = e
                    /\ th'[t].ret = RetPair(e.data, e.code)
                    /\ IF CacheLen(store) = cache.size
                       THEN EntriesOf(store') = (EntriesOf(store) \ {store[1]}) \cup {e}
                       ELSE EntriesOf(store') = EntriesOf(store) \cup {e}

C20_FirstWriterWins == [][\A t \in Threads : C20_Step(t)]_vars

\* Two retrieve_or_compute calls of the same key have computed different
\* outcomes; the store holds the entry of one, and the other has returned that
\* entry's data and code, not its own.
C20_Witness ==
    \E t, u \in Threads :
        /\ t # u /\ Done(t, "retrieve") /\ Done(u, "retrieve") /\ th[t].key = th[u].key
        /\ th[t].entry # NoEntry /\ th[u].entry # NoEntry
        /\ th[t].entry.data # th[u].entry.data
        /\ Contains(store, th[t].key) /\ Peek(store, th[t].key) = th[u].entry
        /\ th[t].ret = RetPair(th[u].entry.data, th[u].entry.code)
        /\ th[u].ret = th[t].ret

====
